---- MODULE Spec2Model ----
(***************************************************************************)
(* A model of simple-server: the routing core, RouteTrieNode, RouteTrie    *)
(* and Router (src/src/routing/routeTrie.ts), and the server around it,    *)
(* SimpleServer (simple-server.ts).  Strings are sequences of              *)
(* one-character strings, so that split('/'), startsWith(':'),             *)
(* replace(':', ''), toUpperCase() and indexOf('?') are computed and not   *)
(* assumed.                                                                *)
(***************************************************************************)
EXTENDS Integers, Sequences, FiniteSets, TLC

VARIABLES routeMethodMap, registered, nMaps, nFinds, last,
          server, listeners, looping, beforeMiddleware, afterMiddleware,
          errorHandler

\* the fields of SimpleServer; its router is routeMethodMap.  listeners
\* counts the calls of serve() that returned, looping tells whether the
\* `for await` loop of start() is waiting for requests
serverVars ==
    <<server, listeners, looping, beforeMiddleware, afterMiddleware,
      errorHandler>>

vars == <<routeMethodMap, registered, nMaps, nFinds, last, serverVars>>

(***************************************************************************)
(* Bounds of the model.                                                    *)
(***************************************************************************)
\* the number of Router.map calls of one run
MaxMaps == 2
\* the number of Router.find calls of one run
MaxFinds == 1
\* the number of segments of a path given to Router.map
MaxSegs == 2
\* the number of routes given to SimpleServer.route in one run
MaxRoutes == 1
\* the number of middleware of each kind added in one run
MaxMiddleware == 2

(***************************************************************************)
(* JavaScript values.                                                      *)
(***************************************************************************)
\* the value of a field that was never assigned
Undefined == "undefined"

\* the handlers given to Router.map: functions, so truthy values.  Handlers
\* are only ever stored and returned, so the n-th call of a run chooses among
\* the first n of them.
Handlers == <<"h1", "h2", "h3", "h4">>

HandlersFor(n) == { Handlers[k] : k \in 1..n }

\* JavaScript truthiness of a node's value, as tested by `if (current.value)`
\* and `!result.node?.value`
Truthy(v) == v \notin {Undefined, "null", "false", "0", "NaN", ""}

(***************************************************************************)
(* Strings.                                                                *)
(***************************************************************************)
LowerCase == <<"a", "b", "c", "d", "e", "f", "g", "h", "i", "j", "k", "l", "m",
               "n", "o", "p", "q", "r", "s", "t", "u", "v", "w", "x", "y", "z">>

UpperCase == <<"A", "B", "C", "D", "E", "F", "G", "H", "I", "J", "K", "L", "M",
               "N", "O", "P", "Q", "R", "S", "T", "U", "V", "W", "X", "Y", "Z">>

\* String.prototype.toUpperCase, one character
ToUpperChar(c) ==
    IF \E i \in 1..26 : LowerCase[i] = c
    THEN UpperCase[CHOOSE i \in 1..26 : LowerCase[i] = c]
    ELSE c

\* method.toUpperCase()
ToUpperCase(s) == [i \in 1..Len(s) |-> ToUpperChar(s[i])]

\* path.split('/'): the pieces between the slashes, the empty ones included
RECURSIVE SplitFrom(_, _, _)
SplitFrom(path, i, piece) ==
    IF i > Len(path) THEN <<piece>>
    ELSE IF path[i] = "/" THEN <<piece>> \o SplitFrom(path, i + 1, <<>>)
    ELSE SplitFrom(path, i + 1, Append(piece, path[i]))

SplitSlash(path) == SplitFrom(path, 1, <<>>)

\* path.split('/').filter((part) => part): the non-empty pieces
Parts(path) == SelectSeq(SplitSlash(path), LAMBDA part : part # <<>>)

\* part.startsWith(':') || part === '*'
isDynamicPart(part) ==
    \/ (Len(part) >= 1 /\ part[1] = ":")
    \/ part = <<"*">>

\* part.replace(':', ''): the first ':' of the part is removed
RECURSIVE ReplaceColonFrom(_, _)
ReplaceColonFrom(part, i) ==
    IF i > Len(part) THEN part
    ELSE IF part[i] = ":"
         THEN SubSeq(part, 1, i - 1) \o SubSeq(part, i + 1, Len(part))
         ELSE ReplaceColonFrom(part, i + 1)

ReplaceColon(part) == ReplaceColonFrom(part, 1)

\* path?.length === 0 || path === '/'
isRoot(path) == Len(path) = 0 \/ path = <<"/">>

(***************************************************************************)
(* RouteTrieNode and RouteTrie.  A trie is the sequence of its nodes in    *)
(* the order of their creation; a reference to a node is its index, and 0  *)
(* is null (parent) or undefined (dynamicSegment).                         *)
(***************************************************************************)
\* new RouteTrieNode(path, parent): no children, no dynamic segment, no value
RouteTrieNode(path, parent) ==
    [path |-> path, parent |-> parent, children |-> <<>>,
     dynamicSegment |-> 0, value |-> Undefined]

\* new RouteTrie(): the root has no parent and the empty path
RouteTrie == [root |-> 1, nodes |-> <<RouteTrieNode(<<>>, 0)>>]

\* current.children.has(part)
HasChild(trie, current, part) == part \in DOMAIN trie.nodes[current].children

\* the trie after `next = new RouteTrieNode(part, current);
\* current.children.set(part, next)`
AddChild(trie, current, part) ==
    LET next == Len(trie.nodes) + 1 IN
    [trie EXCEPT !.nodes =
        Append([@ EXCEPT ![current].children = @ @@ (part :> next)],
               RouteTrieNode(part, current))]

\* a slip in the dynamic branch of insert: the node is created and walked
\* into, but `current.dynamicSegment = next` is left out
AddDynamicUnlinked(trie, current, dynamicPart) ==
    [trie EXCEPT !.nodes = Append(@, RouteTrieNode(dynamicPart, current))]

\* the trie after `next = new RouteTrieNode(dynamicPart, current);
\* current.dynamicSegment = next`
AddDynamic(trie, current, dynamicPart) ==
    LET next == Len(trie.nodes) + 1 IN
    [trie EXCEPT !.nodes =
        Append([@ EXCEPT ![current].dynamicSegment = next],
               RouteTrieNode(dynamicPart, current))]

\* a slip in insert: an existing dynamic child is walked into whatever its
\* capture name is
RECURSIVE InsertLoopAnyName(_, _, _, _)
InsertLoopAnyName(trie, current, parts, i) ==
    IF i > Len(parts) THEN [trie |-> trie, current |-> current, error |-> "none"]
    ELSE LET part == parts[i]
             node == trie.nodes[current]
         IN IF isDynamicPart(part)
            THEN IF node.dynamicSegment # 0
                 THEN InsertLoopAnyName(trie, node.dynamicSegment, parts, i + 1)
                 ELSE InsertLoopAnyName(
                         AddDynamic(trie, current, ReplaceColon(part)),
                         Len(trie.nodes) + 1, parts, i + 1)
            ELSE IF HasChild(trie, current, part)
                 THEN InsertLoopAnyName(trie, node.children[part], parts, i + 1)
                 ELSE InsertLoopAnyName(AddChild(trie, current, part),
                                        Len(trie.nodes) + 1, parts, i + 1)

\* a slip in insert: a dynamic child of another capture name is replaced by
\* a new node
RECURSIVE InsertLoopReplaceDynamic(_, _, _, _)
InsertLoopReplaceDynamic(trie, current, parts, i) ==
    IF i > Len(parts) THEN [trie |-> trie, current |-> current, error |-> "none"]
    ELSE LET part == parts[i]
             node == trie.nodes[current]
         IN IF isDynamicPart(part)
            THEN LET dynamicPart == ReplaceColon(part) IN
                 IF /\ node.dynamicSegment # 0
                    /\ trie.nodes[node.dynamicSegment].path = dynamicPart
                 THEN InsertLoopReplaceDynamic(trie, node.dynamicSegment,
                                               parts, i + 1)
                 ELSE InsertLoopReplaceDynamic(
                         AddDynamic(trie, current, dynamicPart),
                         Len(trie.nodes) + 1, parts, i + 1)
            ELSE IF HasChild(trie, current, part)
                 THEN InsertLoopReplaceDynamic(trie, node.children[part],
                                               parts, i + 1)
                 ELSE InsertLoopReplaceDynamic(AddChild(trie, current, part),
                                               Len(trie.nodes) + 1, parts, i + 1)

\* the loop of insert from part i on: the trie as the loop leaves it, the
\* node it stands on, and whether it threw
RECURSIVE InsertLoop(_, _, _, _)
InsertLoop(trie, current, parts, i) ==
    IF i > Len(parts) THEN [trie |-> trie, current |-> current, error |-> "none"]
    ELSE LET part == parts[i]
             node == trie.nodes[current]
         IN IF isDynamicPart(part)
            THEN LET dynamicPart == ReplaceColon(part) IN
                 IF node.dynamicSegment # 0
                 THEN IF trie.nodes[node.dynamicSegment].path # dynamicPart
                      THEN [trie |-> trie, current |-> current,
                            error |-> "ConflictingDynamicSegment"]
                      ELSE InsertLoop(trie, node.dynamicSegment, parts, i + 1)
                 ELSE InsertLoop(AddDynamic(trie, current, dynamicPart),
                                 Len(trie.nodes) + 1, parts, i + 1)
            ELSE IF HasChild(trie, current, part)
                 THEN InsertLoop(trie, node.children[part], parts, i + 1)
                 ELSE InsertLoop(AddChild(trie, current, part),
                                 Len(trie.nodes) + 1, parts, i + 1)

\* the path insert splits: a '/' is put before a path that does not start
\* with one
InsertPath(path) ==
    IF Len(path) = 0 \/ path[1] # "/" THEN <<"/">> \o path ELSE path

\* a slip in insert: the value is assigned before the test, so a duplicate
\* registration throws and replaces the value all the same
BindValueThenThrow(trie, current, value) ==
    [trie |-> [trie EXCEPT !.nodes[current].value = value],
     error |-> IF Truthy(trie.nodes[current].value)
               THEN "DuplicateRoute" ELSE "none"]

\* a slip in insert: the test for a bound value is left out
BindValueOverwrite(trie, current, value) ==
    [trie |-> [trie EXCEPT !.nodes[current].value = value], error |-> "none"]

\* the final test and assignment of insert
BindValue(trie, current, value) ==
    IF Truthy(trie.nodes[current].value)
    THEN [trie |-> trie, error |-> "DuplicateRoute"]
    ELSE [trie |-> [trie EXCEPT !.nodes[current].value = value],
          error |-> "none"]

\* RouteTrie.insert(path, value): the trie it leaves and the error it threw
Insert(trie, path, value) ==
    LET walk == InsertLoop(trie, trie.root, Parts(InsertPath(path)), 1) IN
    IF walk.error # "none"
    THEN [trie |-> walk.trie, error |-> walk.error]
    ELSE BindValue(walk.trie, walk.current, value)

\* the result of RouteTrie.find: null, or a node with params (params is
\* left undefined by the root case)
NullResult == [isNull |-> TRUE, node |-> 0, hasParams |-> FALSE, params |-> <<>>]

\* a slip in find: a capture name that is already recorded keeps its first
\* value
SetParamKeepFirst(params, name, part) ==
    [k \in (DOMAIN params) \cup {name} |->
        IF k \in DOMAIN params THEN params[k] ELSE part]

\* params[name] = part
SetParam(params, name, part) ==
    [k \in (DOMAIN params) \cup {name} |-> IF k = name THEN part ELSE params[k]]

\* a slip in find: the dynamic child is tried before the literal child
RECURSIVE FindLoopDynamicFirst(_, _, _, _, _)
FindLoopDynamicFirst(trie, current, parts, i, params) ==
    IF i > Len(parts)
    THEN [isNull |-> FALSE, node |-> current, hasParams |-> TRUE,
          params |-> params]
    ELSE LET part == parts[i]
             node == trie.nodes[current]
         IN IF node.dynamicSegment # 0
            THEN FindLoopDynamicFirst(
                    trie, node.dynamicSegment, parts, i + 1,
                    [k \in (DOMAIN params)
                           \cup {trie.nodes[node.dynamicSegment].path} |->
                        IF k = trie.nodes[node.dynamicSegment].path
                        THEN part ELSE params[k]])
            ELSE IF part \in DOMAIN node.children
                 THEN FindLoopDynamicFirst(trie, node.children[part], parts,
                                           i + 1, params)
                 ELSE [isNull |-> TRUE, node |-> 0, hasParams |-> FALSE,
                       params |-> <<>>]

\* a slip in find: when the way through the literal child ends nowhere, the
\* dynamic child is tried
RECURSIVE FindLoopBacktracking(_, _, _, _, _)
FindLoopBacktracking(trie, current, parts, i, params) ==
    IF i > Len(parts)
    THEN [isNull |-> FALSE, node |-> current, hasParams |-> TRUE,
          params |-> params]
    ELSE LET part == parts[i]
             node == trie.nodes[current]
             literal ==
                IF part \in DOMAIN node.children
                THEN FindLoopBacktracking(trie, node.children[part], parts,
                                          i + 1, params)
                ELSE [isNull |-> TRUE, node |-> 0, hasParams |-> FALSE,
                      params |-> <<>>]
         IN IF ~literal.isNull THEN literal
            ELSE IF node.dynamicSegment # 0
                 THEN FindLoopBacktracking(
                         trie, node.dynamicSegment, parts, i + 1,
                         [k \in (DOMAIN params)
                                \cup {trie.nodes[node.dynamicSegment].path} |->
                             IF k = trie.nodes[node.dynamicSegment].path
                             THEN part ELSE params[k]])
                 ELSE [isNull |-> TRUE, node |-> 0, hasParams |-> FALSE,
                       params |-> <<>>]

\* the loop of find from part i on
RECURSIVE FindLoop(_, _, _, _, _)
FindLoop(trie, current, parts, i, params) ==
    IF i > Len(parts)
    THEN [isNull |-> FALSE, node |-> current, hasParams |-> TRUE,
          params |-> params]
    ELSE LET part == parts[i]
             node == trie.nodes[current]
         IN IF HasChild(trie, current, part)
            THEN FindLoop(trie, node.children[part], parts, i + 1, params)
            ELSE IF node.dynamicSegment # 0
                 THEN FindLoop(trie, node.dynamicSegment, parts, i + 1,
                               SetParam(params,
                                        trie.nodes[node.dynamicSegment].path,
                                        part))
                 ELSE NullResult

\* the path find splits
FindPath(path) == IF path[1] # "/" THEN <<"/">> \o path ELSE path

\* a slip in find: the root case goes on to the dynamic child of the root,
\* as if the empty path had one segment to capture
TrieFindRootDynamic(trie, path) ==
    IF isRoot(path)
    THEN [isNull |-> FALSE,
          node |-> IF trie.nodes[trie.root].dynamicSegment # 0
                   THEN trie.nodes[trie.root].dynamicSegment ELSE trie.root,
          hasParams |-> FALSE, params |-> <<>>]
    ELSE FindLoop(trie, trie.root, Parts(FindPath(path)), 1, <<>>)

\* RouteTrie.find(path)
TrieFind(trie, path) ==
    IF isRoot(path)
    THEN [isNull |-> FALSE, node |-> trie.root, hasParams |-> FALSE,
          params |-> <<>>]
    ELSE FindLoop(trie, trie.root, Parts(FindPath(path)), 1, <<>>)

(***************************************************************************)
(* Router.                                                                 *)
(***************************************************************************)
\* enum HttpMethod
HttpMethod ==
    { <<"G", "E", "T">>, <<"P", "U", "T">>, <<"P", "O", "S", "T">>,
      <<"D", "E", "L", "E", "T", "E">>, <<"H", "E", "A", "D">>,
      <<"P", "A", "T", "C", "H">>, <<"O", "P", "T", "I", "O", "N", "S">>,
      <<"T", "R", "A", "C", "E">>, <<"C", "O", "N", "N", "E", "C", "T">> }

\* this.routeMethodMap.get(httpMethod) is not undefined
HasTrie(map, httpMethod) == httpMethod \in DOMAIN map

\* new Router(): one empty trie for each method of the enum
NewRouter == [method \in HttpMethod |-> RouteTrie]

\* a slip in Router: the methods share one trie, that of GET
RouterMapSharedTrie(map, method, path, handler) ==
    LET httpMethod == ToUpperCase(method) IN
    IF ~HasTrie(map, httpMethod)
    THEN [map |-> map, error |-> "UnsupportedMethod"]
    ELSE LET shared == <<"G", "E", "T">>
             done == Insert(map[shared], path, handler)
         IN [map |-> [map EXCEPT ![shared] = done.trie], error |-> done.error]

\* Router.map(method, path, handler): the map it leaves and the error thrown
RouterMap(map, method, path, handler) ==
    LET httpMethod == ToUpperCase(method) IN
    IF ~HasTrie(map, httpMethod)
    THEN [map |-> map, error |-> "UnsupportedMethod"]
    ELSE LET done == Insert(map[httpMethod], path, handler) IN
         [map |-> [map EXCEPT ![httpMethod] = done.trie], error |-> done.error]

\* the results of Router.find: null, or a handler with pathParams
\* (pathParams is undefined when hasParams is FALSE)
NotFound ==
    [error |-> "none", found |-> FALSE, handler |-> Undefined,
     hasParams |-> FALSE, pathParams |-> <<>>]

Thrown(error) ==
    [error |-> error, found |-> FALSE, handler |-> Undefined,
     hasParams |-> FALSE, pathParams |-> <<>>]

\* a slip in Router.find: the method is looked up as it was given
RouterFindAsGiven(map, method, path) ==
    IF ~HasTrie(map, method) THEN Thrown("UnsupportedMethod")
    ELSE LET trie == map[method]
             result == TrieFind(trie, path)
         IN IF result.isNull \/ ~Truthy(trie.nodes[result.node].value)
            THEN NotFound
            ELSE [error |-> "none", found |-> TRUE,
                  handler |-> trie.nodes[result.node].value,
                  hasParams |-> result.hasParams,
                  pathParams |-> result.params]

\* a slip in Router.find: the node the walk ends at is not tested for a
\* value
RouterFindAnyNode(map, method, path) ==
    LET httpMethod == ToUpperCase(method) IN
    IF ~HasTrie(map, httpMethod) THEN Thrown("UnsupportedMethod")
    ELSE LET trie == map[httpMethod]
             result == TrieFind(trie, path)
         IN IF result.isNull
            THEN NotFound
            ELSE [error |-> "none", found |-> TRUE,
                  handler |-> trie.nodes[result.node].value,
                  hasParams |-> result.hasParams,
                  pathParams |-> result.params]

\* Router.find(method, path)
RouterFind(map, method, path) ==
    LET httpMethod == ToUpperCase(method) IN
    IF ~HasTrie(map, httpMethod) THEN Thrown("UnsupportedMethod")
    ELSE LET trie == map[httpMethod]
             result == TrieFind(trie, path)
         IN IF result.isNull \/ ~Truthy(trie.nodes[result.node].value)
            THEN NotFound
            ELSE [error |-> "none", found |-> TRUE,
                  handler |-> trie.nodes[result.node].value,
                  hasParams |-> result.hasParams,
                  pathParams |-> result.params]

(***************************************************************************)
(* The calls of a run: their arguments are drawn from these sets.          *)
(***************************************************************************)
\* the segments of the paths: literals, named captures and the wildcard
Literals == { <<"a">>, <<"b">> }

Dynamics == { <<":", "x">>, <<":", "y">>, <<"*">> }

\* the segments of the routes that are registered
MapSegs == { <<"a">> } \cup Dynamics

\* the segments of the paths the properties look up: a request segment may
\* have the text of a dynamic segment
FindSegs == Literals \cup Dynamics

\* the sequences of at most n segments drawn from S
SegSeqs(S, n) == UNION { [1..k -> S] : k \in 0..n }

\* the texts of a path with the given segments: '/a/b' ('/' for none),
\* 'a/b' ('' for none) and '//a///b//' ('//' for none)
RECURSIVE Concat(_, _, _)
Concat(segs, before, after) ==
    IF segs = <<>> THEN <<>>
    ELSE before \o Head(segs) \o after \o Concat(Tail(segs), before, after)

Canon(segs) == IF segs = <<>> THEN <<"/">> ELSE Concat(segs, <<"/">>, <<>>)

Bare(segs) == IF segs = <<>> THEN <<>> ELSE Tail(Canon(segs))

Messy(segs) == <<"/">> \o Concat(segs, <<"/">>, <<"/">>) \o <<"/">>

PathTexts(segs) == { Canon(segs), Bare(segs), Messy(segs) }

\* the paths given to Router.map
MapPaths == UNION { PathTexts(segs) : segs \in SegSeqs(MapSegs, MaxSegs) }

\* the paths given to Router.find: request paths of literal segments, up to
\* one segment longer than any route, in plain text, and the shortest of
\* them in every text
FindPaths ==
    { Canon(segs) : segs \in SegSeqs(Literals, MaxSegs + 1) }
    \cup UNION { PathTexts(segs) : segs \in SegSeqs(Literals, MaxSegs - 1) }

\* the methods given to map and find
MethodInputs ==
    { <<"G", "E", "T">>, <<"g", "e", "t">>, <<"P", "o", "s", "t">>,
      <<"P", "U", "R", "G", "E">> }

\* the record of the latest call.  A call of map is recorded by what the
\* router makes of its arguments (the method in upper case, the parts of
\* the path) and the error it threw, a call of find by what it returned or
\* threw.
NoCall ==
    [op |-> "none", method |-> <<>>, path |-> <<>>, handler |-> Undefined,
     error |-> "none", result |-> NotFound]

\* new SimpleServer(): a new router, no server, the default error handler
\* and no middleware
Init ==
    /\ routeMethodMap = NewRouter
    /\ registered = {}
    /\ nMaps = 0
    /\ nFinds = 0
    /\ last = NoCall
    /\ server = Undefined
    /\ listeners = 0
    /\ looping = FALSE
    /\ beforeMiddleware = <<>>
    /\ afterMiddleware = <<>>
    /\ errorHandler = "defaultErrorHandler"

\* a call of Router.map
Map(method, path, handler) ==
    /\ LET done == RouterMap(routeMethodMap, method, path, handler)
           call == [method |-> ToUpperCase(method),
                    path |-> Parts(InsertPath(path)), handler |-> handler]
       IN /\ routeMethodMap' = done.map
          /\ registered' =
               IF done.error = "none" THEN registered \cup {call}
               ELSE registered
          /\ last' = [op |-> "map", method |-> call.method,
                      path |-> call.path, handler |-> handler,
                      error |-> done.error, result |-> NotFound]
    /\ nMaps' = nMaps + 1
    /\ UNCHANGED <<nFinds, serverVars>>

\* a call of Router.find
Find(method, path) ==
    /\ LET result == RouterFind(routeMethodMap, method, path) IN
       last' = [op |-> "find", method |-> <<>>, path |-> <<>>,
                handler |-> Undefined, error |-> result.error,
                result |-> result]
    /\ nFinds' = nFinds + 1
    /\ UNCHANGED <<routeMethodMap, registered, nMaps, serverVars>>

Next ==
    \/ /\ nMaps < MaxMaps
       /\ \E method \in MethodInputs, path \in MapPaths,
             handler \in HandlersFor(nMaps + 1) : Map(method, path, handler)
    \/ /\ nFinds < MaxFinds
       /\ \E method \in MethodInputs, path \in FindPaths : Find(method, path)

Spec == Init /\ [][Next]_vars

(***************************************************************************)
(* What the properties speak of.                                           *)
(***************************************************************************)
\* the capture name of a dynamic segment: its text without the leading ':'
CaptureName(seg) == IF seg[1] = ":" THEN Tail(seg) ELSE seg

\* the positions of the dynamic segments of a route
DynamicPositions(route) == { i \in 1..Len(route) : isDynamicPart(route[i]) }

\* the node a route stands on after its first k segments (0 when the trie
\* has no such node): a literal segment names a child, a dynamic segment
\* the dynamic child of that capture name
RECURSIVE RouteNode(_, _, _)
RouteNode(trie, route, k) ==
    IF k = 0 THEN trie.root
    ELSE LET prev == RouteNode(trie, route, k - 1) IN
         IF prev = 0 THEN 0
         ELSE LET node == trie.nodes[prev] IN
              IF isDynamicPart(route[k])
              THEN IF /\ node.dynamicSegment # 0
                      /\ trie.nodes[node.dynamicSegment].path
                            = CaptureName(route[k])
                   THEN node.dynamicSegment ELSE 0
              ELSE IF route[k] \in DOMAIN node.children
                   THEN node.children[route[k]] ELSE 0

\* the segment sequences of the paths the properties look up
FindSeqs ==
    SegSeqs(FindSegs, MaxSegs) \cup [1..(MaxSegs + 1) -> Literals]

\* the spellings among MethodInputs of an HTTP method
Spellings(httpMethod) ==
    { method \in MethodInputs : ToUpperCase(method) = httpMethod }

GET == <<"G", "E", "T">>

POST == <<"P", "O", "S", "T">>

a == <<"a">>

b == <<"b">>

x == <<"x">>

y == <<"y">>

star == <<"*">>

colonX == <<":", "x">>

colonY == <<":", "y">>

(***************************************************************************)
(* SimpleServer.  The functions the program is given (middleware, route    *)
(* handlers, an error handler) are names; those of Throwing throw when     *)
(* they are called, the others return.  An event is a call the server      *)
(* makes while it handles a request.                                       *)
(***************************************************************************)
\* path.indexOf(c), counted from 1: 0 when c is not in path
RECURSIVE IndexOfFrom(_, _, _)
IndexOfFrom(path, c, i) ==
    IF i > Len(path) THEN 0
    ELSE IF path[i] = c THEN i ELSE IndexOfFrom(path, c, i + 1)

\* a slip in splitQueryParamPart: the path is cut at the last '?'
splitQueryParamPartAtLast(path) ==
    LET marks == { i \in 1..Len(path) : path[i] = "?" } IN
    IF marks = {} THEN [path |-> path, hasQsp |-> FALSE, qsp |-> <<>>]
    ELSE LET qspIndex == CHOOSE i \in marks : \A j \in marks : j <= i IN
         [path |-> SubSeq(path, 1, qspIndex - 1), hasQsp |-> TRUE,
          qsp |-> SubSeq(path, qspIndex + 1, Len(path))]

\* splitQueryParamPart(path): the path before the first '?' and the query
\* string after it (qsp is undefined when hasQsp is FALSE)
splitQueryParamPart(path) ==
    LET qspIndex == IndexOfFrom(path, "?", 1) IN
    IF qspIndex = 0 THEN [path |-> path, hasQsp |-> FALSE, qsp |-> <<>>]
    ELSE [path |-> SubSeq(path, 1, qspIndex - 1), hasQsp |-> TRUE,
          qsp |-> SubSeq(path, qspIndex + 1, Len(path))]

\* the functions that throw when they are called
Throwing == { "bThrow", "aThrow", "hThrow" }

Throws(f) == f \in Throwing

\* a call made for a request: of a before-middleware, of router.find (with
\* the method and the path it is given), of a handler, of an
\* after-middleware, or of the error handler
Event(kind, name, method, path) ==
    [kind |-> kind, name |-> name, method |-> method, path |-> path]

\* `for (const m of list) { m.run(...) }` from the i-th on: the calls made,
\* and whether one of them threw
RECURSIVE RunMiddleware(_, _, _)
RunMiddleware(list, kind, i) ==
    IF i > Len(list) THEN [events |-> <<>>, threw |-> FALSE]
    ELSE IF Throws(list[i])
         THEN [events |-> <<Event(kind, list[i], <<>>, <<>>)>>, threw |-> TRUE]
         ELSE LET rest == RunMiddleware(list, kind, i + 1) IN
              [events |-> <<Event(kind, list[i], <<>>, <<>>)>> \o rest.events,
               threw |-> rest.threw]

\* the try block of the request loop and its catch clause: the lookup, the
\* handler, the after-middleware, and the error handler when one of them
\* throws
TryBlock(method, path) ==
    LET result == RouterFind(routeMethodMap, method, path)
        lookup == Event("find", "find", method, path)
        caught == Event("error", errorHandler, <<>>, <<>>)
    IN IF result.error # "none"
       THEN [events |-> <<lookup, caught>>, threw |-> TRUE]
       ELSE LET handler == IF result.found THEN result.handler
                           ELSE "defaultHandler"
                call == Event("handler", handler, <<>>, <<>>)
            IN IF Throws(handler)
               THEN [events |-> <<lookup, call, caught>>, threw |-> TRUE]
               ELSE LET after == RunMiddleware(afterMiddleware, "after", 1) IN
                    [events |-> <<lookup, call>> \o after.events
                                  \o (IF after.threw THEN <<caught>> ELSE <<>>),
                     threw |-> after.threw]

\* the body of the request loop of start(): the before-middleware run
\* before the try block, so what they throw leaves the loop
HandleRequest(method, url) ==
    LET before == RunMiddleware(beforeMiddleware, "before", 1) IN
    IF before.threw
    THEN [events |-> before.events, threw |-> TRUE, escaped |-> TRUE]
    ELSE LET segments == splitQueryParamPart(url)
             body == TryBlock(method, segments.path)
         IN [events |-> before.events \o body.events, threw |-> body.threw,
             escaped |-> FALSE]

\* what the server is given in a run
RequestMethods == { <<"G", "E", "T">>, <<"P", "U", "R", "G", "E">> }

RequestUrls ==
    { <<"/", "a">>, <<"/", "a", "?", "q", "?", "r">>, <<"/", "b">> }

RouteMethods == { <<"g", "e", "t">> }

RoutePaths == { <<"/", "a">> }

RouteHandlers == { "h1", "hThrow" }

BeforeInputs == { "b1", "b2", "bThrow" }

AfterInputs == { "a1", "a2", "aThrow" }

ErrorHandlerInputs == { "onErr" }

\* start() when serve() returns a server, and when a server is set already
Start ==
    IF Truthy(server)
    THEN /\ last' = [op |-> "start", log |-> "Server is already running."]
         /\ UNCHANGED <<routeMethodMap, registered, nMaps, nFinds, serverVars>>
    ELSE /\ server' = "open"
         /\ listeners' = listeners + 1
         /\ looping' = TRUE
         /\ last' = [op |-> "start", log |-> "Starting server on port"]
         /\ UNCHANGED <<routeMethodMap, registered, nMaps, nFinds,
                        beforeMiddleware, afterMiddleware, errorHandler>>

\* start() when serve() throws (the port is taken): no server is set
StartFails ==
    /\ ~Truthy(server)
    /\ last' = [op |-> "start", log |-> "Starting server on port",
                threw |-> TRUE]
    /\ UNCHANGED <<routeMethodMap, registered, nMaps, nFinds, serverVars>>

\* a request the loop of start() receives
Request(method, url) ==
    /\ looping
    /\ LET done == HandleRequest(method, url) IN
       /\ last' = [op |-> "request", method |-> method, url |-> url,
                   events |-> done.events, threw |-> done.threw,
                   escaped |-> done.escaped]
       /\ looping' = ~done.escaped
    /\ UNCHANGED <<routeMethodMap, registered, nMaps, nFinds, server,
                   listeners, beforeMiddleware, afterMiddleware, errorHandler>>

\* a slip in stop(): the server is cleared when it is closed
StopClearsServer ==
    IF ~Truthy(server)
    THEN /\ last' = [op |-> "stop", log |-> "Server is not running."]
         /\ UNCHANGED <<routeMethodMap, registered, nMaps, nFinds, serverVars>>
    ELSE /\ server' = Undefined
         /\ looping' = FALSE
         /\ last' = [op |-> "stop", log |-> ""]
         /\ UNCHANGED <<routeMethodMap, registered, nMaps, nFinds, listeners,
                        beforeMiddleware, afterMiddleware, errorHandler>>

\* stop(): the server is closed, which ends the loop of start(), and stays
\* set
Stop ==
    IF ~Truthy(server)
    THEN /\ last' = [op |-> "stop", log |-> "Server is not running."]
         /\ UNCHANGED <<routeMethodMap, registered, nMaps, nFinds, serverVars>>
    ELSE /\ server' = "closed"
         /\ looping' = FALSE
         /\ last' = [op |-> "stop", log |-> ""]
         /\ UNCHANGED <<routeMethodMap, registered, nMaps, nFinds, listeners,
                        beforeMiddleware, afterMiddleware, errorHandler>>

\* onError(handler)
OnError(handler) ==
    /\ errorHandler' = handler
    /\ last' = [op |-> "onError"]
    /\ UNCHANGED <<routeMethodMap, registered, nMaps, nFinds, server,
                   listeners, looping, beforeMiddleware, afterMiddleware>>

\* route(method, path, handler): this.router.map(method, path, handler)
Route(method, path, handler) == Map(method, path, handler)

\* addBeforeMiddleware(beforeMiddleware)
AddBeforeMiddleware(middleware) ==
    /\ beforeMiddleware' = Append(beforeMiddleware, middleware)
    /\ last' = [op |-> "addBeforeMiddleware"]
    /\ UNCHANGED <<routeMethodMap, registered, nMaps, nFinds, server,
                   listeners, looping, afterMiddleware, errorHandler>>

\* addAfterMiddleware(afterMiddleware)
AddAfterMiddleware(middleware) ==
    /\ afterMiddleware' = Append(afterMiddleware, middleware)
    /\ last' = [op |-> "addAfterMiddleware"]
    /\ UNCHANGED <<routeMethodMap, registered, nMaps, nFinds, server,
                   listeners, looping, beforeMiddleware, errorHandler>>

ServerNext ==
    \/ Start
    \/ StartFails
    \/ Stop
    \/ \E method \in RequestMethods, url \in RequestUrls : Request(method, url)
    \/ \E handler \in ErrorHandlerInputs : OnError(handler)
    \/ /\ nMaps < MaxRoutes
       /\ \E method \in RouteMethods, path \in RoutePaths,
             handler \in RouteHandlers : Route(method, path, handler)
    \/ /\ Len(beforeMiddleware) < MaxMiddleware
       /\ \E middleware \in BeforeInputs : AddBeforeMiddleware(middleware)
    \/ /\ Len(afterMiddleware) < MaxMiddleware
       /\ \E middleware \in AfterInputs : AddAfterMiddleware(middleware)

ServerSpec == Init /\ [][ServerNext]_vars

(***************************************************************************)
(* C1.  Every route whose map call succeeded is found under the path text  *)
(* it was registered with: find on that method (in any spelling) and on    *)
(* any text with the parts of the registered path returns the handler of   *)
(* that registration, in every later state, whatever was registered since. *)
(***************************************************************************)
C1_RegisteredRouteIsFound ==
    \A r \in registered :
        \A method \in Spellings(r.method), path \in PathTexts(r.path) :
            /\ Parts(InsertPath(path)) = r.path
            /\ RouterFind(routeMethodMap, method, path).found
            /\ RouterFind(routeMethodMap, method, path).handler = r.handler

\* two routes are registered, one of them with a dynamic segment, and a
\* find has just returned a handler
C1_Witness ==
    /\ Cardinality(registered) = 2
    /\ \E r \in registered : DynamicPositions(r.path) # {}
    /\ last.op = "find"
    /\ last.result.found

(***************************************************************************)
(* C2.  A request that has as many segments as a registered route with     *)
(* dynamic segments, equals it on its literal segments and has, at each    *)
(* dynamic position, a segment that is no literal child at that node, is   *)
(* found with the handler of the route.  As claimed, pathParams maps the   *)
(* capture name of each dynamic position to the request segment at that    *)
(* position (C2_ParamsAtEachPosition).  What holds (C2_ParamsAtDeepest) is *)
(* that pathParams has exactly the capture names of the route as its keys, *)
(* each mapped to the request segment at the deepest position that bears   *)
(* the name.                                                               *)
(***************************************************************************)
\* the request q follows the route: the same length, the same literals, and
\* no literal child in the way at a dynamic position
MatchesRoute(trie, route, q) ==
    /\ Len(q) = Len(route)
    /\ \A i \in 1..Len(route) :
          IF isDynamicPart(route[i])
          THEN ~HasChild(trie, RouteNode(trie, route, i - 1), q[i])
          ELSE q[i] = route[i]

\* the deepest position of the route with the capture name of position i
Deepest(route, i) ==
    CHOOSE j \in DynamicPositions(route) :
        /\ CaptureName(route[j]) = CaptureName(route[i])
        /\ \A k \in DynamicPositions(route) :
              CaptureName(route[k]) = CaptureName(route[i]) => k <= j

\* Check(route, q, result) holds of every request q that follows a
\* registered route with dynamic segments and of the result of its lookup,
\* under every spelling of the method
ForDynamicLookups(Check(_, _, _)) ==
    \A r \in registered :
        DynamicPositions(r.path) # {} =>
            \A q \in FindSeqs :
                MatchesRoute(routeMethodMap[r.method], r.path, q) =>
                    \A method \in Spellings(r.method) :
                        LET result ==
                               RouterFind(routeMethodMap, method, Canon(q))
                        IN /\ result.found
                           /\ result.handler = r.handler
                           /\ result.hasParams
                           /\ Check(r.path, q, result)

ParamsAtEachPosition(route, q, result) ==
    \A i \in DynamicPositions(route) :
        /\ CaptureName(route[i]) \in DOMAIN result.pathParams
        /\ result.pathParams[CaptureName(route[i])] = q[i]

ParamsAtDeepest(route, q, result) ==
    /\ DOMAIN result.pathParams
          = { CaptureName(route[i]) : i \in DynamicPositions(route) }
    /\ \A i \in DynamicPositions(route) :
          result.pathParams[CaptureName(route[i])] = q[Deepest(route, i)]

C2_ParamsAtEachPosition == ForDynamicLookups(ParamsAtEachPosition)

C2_ParamsAtDeepest == ForDynamicLookups(ParamsAtDeepest)

\* GET /a/:x is registered and a find has returned {x: "b"}, as
\* find('GET', '/a/b') does
C2_Witness ==
    /\ \E r \in registered : r.method = GET /\ r.path = <<a, colonX>>
    /\ RouterFind(routeMethodMap, GET, Canon(<<a, b>>)) = last.result
    /\ last.op = "find"
    /\ last.result.found
    /\ last.result.hasParams
    /\ last.result.pathParams = (x :> b)

(***************************************************************************)
(* C3.  Literal precedence.  Whenever the walk of find stands on a node    *)
(* that has both a literal child keyed by the next segment and a dynamic   *)
(* child, it goes to the literal child and records nothing for the         *)
(* segment.  So when a route ending in a literal segment and a route       *)
(* ending in a dynamic segment at the same place are both registered, in   *)
(* either order, the literal route is found under its own path, with no    *)
(* capture for its last segment.                                           *)
(***************************************************************************)
\* all but the last element of a non-empty sequence
Front(seq) == SubSeq(seq, 1, Len(seq) - 1)

C3_LiteralStep ==
    \A httpMethod \in HttpMethod, q \in FindSeqs :
        Len(q) >= 1 =>
            LET trie == routeMethodMap[httpMethod]
                before == TrieFind(trie, Canon(Front(q)))
                after == TrieFind(trie, Canon(q))
            IN (/\ ~before.isNull
                /\ HasChild(trie, before.node, q[Len(q)])
                /\ trie.nodes[before.node].dynamicSegment # 0)
               => /\ ~after.isNull
                  /\ after.node = trie.nodes[before.node].children[q[Len(q)]]
                  /\ after.params = before.params

C3_LiteralRoute ==
    \A r1 \in registered, r2 \in registered :
        (/\ r1.method = r2.method
         /\ Len(r1.path) = Len(r2.path)
         /\ Len(r1.path) >= 1
         /\ Front(r1.path) = Front(r2.path)
         /\ ~isDynamicPart(r1.path[Len(r1.path)])
         /\ isDynamicPart(r2.path[Len(r2.path)]))
        => \A method \in Spellings(r1.method) :
              LET result ==
                     RouterFind(routeMethodMap, method, Canon(r1.path))
              IN /\ result.found
                 /\ result.handler = r1.handler
                 /\ DOMAIN result.pathParams
                       = { CaptureName(r1.path[i]) :
                              i \in DynamicPositions(r1.path) }

C3_LiteralPrecedence == C3_LiteralStep /\ C3_LiteralRoute

\* GET /a/:x and GET /a/a are registered with different handlers, and a
\* find has returned the handler of /a/a with no capture, as
\* find('GET', '/a/a') does
C3_Witness ==
    \E r1 \in registered, r2 \in registered :
        /\ r1.method = GET /\ r1.path = <<a, a>>
        /\ r2.method = GET /\ r2.path = <<a, colonX>>
        /\ r1.handler # r2.handler
        /\ last.op = "find"
        /\ last.result = RouterFind(routeMethodMap, GET, Canon(<<a, a>>))
        /\ last.result.found
        /\ last.result.handler = r1.handler
        /\ last.result.pathParams = <<>>

(***************************************************************************)
(* C4.  Wildcard catch-all, as claimed: when a route whose last segment is *)
(* '*', after literal segments, is registered and no other route of the    *)
(* method lies below those literal segments, every request that starts     *)
(* with them and has one segment more, or several, is found with the       *)
(* handler of the route and a capture under '*'.  The code matches '*'     *)
(* against one segment only, so this fails for the longer requests.        *)
(***************************************************************************)
\* seq starts with prefix
StartsWith(seq, prefix) ==
    Len(seq) >= Len(prefix) /\ SubSeq(seq, 1, Len(prefix)) = prefix

C4_WildcardCatchesAll ==
    \A r \in registered :
        (/\ Len(r.path) >= 1
         /\ r.path[Len(r.path)] = star
         /\ DynamicPositions(Front(r.path)) = {}
         /\ \A r2 \in registered \ {r} :
               r2.method = r.method =>
                  ~(StartsWith(r2.path, Front(r.path))
                    /\ Len(r2.path) > Len(Front(r.path))))
        => \A q \in FindSeqs :
              (StartsWith(q, Front(r.path)) /\ Len(q) >= Len(r.path)) =>
                 \A method \in Spellings(r.method) :
                    LET result == RouterFind(routeMethodMap, method, Canon(q))
                    IN /\ result.found
                       /\ result.handler = r.handler
                       /\ result.hasParams
                       /\ star \in DOMAIN result.pathParams

(***************************************************************************)
(* C5.  ConflictingDynamicSegment.  A map call on a supported method       *)
(* throws this error exactly when its path, walked from the root, comes    *)
(* with a dynamic segment to a node whose dynamic child has another        *)
(* capture name; where the capture name is the same, the call walks into   *)
(* that child, which stays the dynamic child of the node under that name.  *)
(***************************************************************************)
\* the positions at which the route meets a dynamic child of another name
Conflicts(trie, route) ==
    { k \in DynamicPositions(route) :
        LET n == RouteNode(trie, route, k - 1) IN
        /\ n # 0
        /\ trie.nodes[n].dynamicSegment # 0
        /\ trie.nodes[trie.nodes[n].dynamicSegment].path
              # CaptureName(route[k]) }

\* the positions at which the route meets a dynamic child of the same name
Agreements(trie, route) ==
    { k \in DynamicPositions(route) :
        LET n == RouteNode(trie, route, k - 1) IN
        /\ n # 0
        /\ trie.nodes[n].dynamicSegment # 0
        /\ trie.nodes[trie.nodes[n].dynamicSegment].path
              = CaptureName(route[k]) }

C5_ConflictStep ==
    (last'.op = "map" /\ last'.method \in HttpMethod) =>
        LET trie == routeMethodMap[last'.method]
            after == routeMethodMap'[last'.method]
        IN /\ (last'.error = "ConflictingDynamicSegment")
                 <=> (Conflicts(trie, last'.path) # {})
           /\ \A k \in Agreements(trie, last'.path) :
                 LET n == RouteNode(trie, last'.path, k - 1) IN
                 /\ after.nodes[n].dynamicSegment = trie.nodes[n].dynamicSegment
                 /\ after.nodes[trie.nodes[n].dynamicSegment].path
                       = CaptureName(last'.path[k])
                 /\ RouteNode(after, last'.path, k)
                       = trie.nodes[n].dynamicSegment

C5_ConflictingDynamicSegment == [][C5_ConflictStep]_vars

\* GET /a/:x is registered and map('GET', '/a/:y', h) has thrown
C5_Witness ==
    /\ \E r \in registered : r.method = GET /\ r.path = <<a, colonX>>
    /\ last.op = "map"
    /\ last.method = GET
    /\ last.path = <<a, colonY>>
    /\ last.error = "ConflictingDynamicSegment"

(***************************************************************************)
(* C6.  DuplicateRoute.  Once a map call on a method and a path has        *)
(* succeeded, every later map call on that method whose path has the same  *)
(* parts throws DuplicateRoute, whatever its handler, and registers        *)
(* nothing; so no two registered routes of a method end at one node.       *)
(***************************************************************************)
\* the node a registered route ends at
Terminal(map, r) == RouteNode(map[r.method], r.path, Len(r.path))

C6_DuplicateStep ==
    /\ (/\ last'.op = "map"
        /\ \E r \in registered :
              r.method = last'.method /\ r.path = last'.path)
       => /\ last'.error = "DuplicateRoute"
          /\ registered' = registered
    /\ \A r1 \in registered', r2 \in registered' :
          /\ Terminal(routeMethodMap', r1) # 0
          /\ (r1.method = r2.method
              /\ Terminal(routeMethodMap', r1) = Terminal(routeMethodMap', r2))
             => r1 = r2

C6_DuplicateRoute == [][C6_DuplicateStep]_vars

\* GET /a/a is registered and a map call on GET and the same parts, with
\* another handler, has thrown
C6_Witness ==
    /\ \E r \in registered :
          r.method = GET /\ r.path = <<a, a>> /\ r.handler # last.handler
    /\ last.op = "map"
    /\ last.method = GET
    /\ last.path = <<a, a>>
    /\ last.error = "DuplicateRoute"

(***************************************************************************)
(* C7.  A map call that throws leaves the router as it was: every trie is  *)
(* unchanged (no node created, no dynamic child bound, no handler set) and *)
(* nothing is registered.  Router.find reads nothing but the tries, so it  *)
(* returns for every method and path what it returned before the call.     *)
(***************************************************************************)
C7_FailedStep ==
    (last'.op = "map" /\ last'.error # "none") =>
        /\ routeMethodMap' = routeMethodMap
        /\ registered' = registered

C7_FailedMapChangesNothing == [][C7_FailedStep]_vars

\* GET /:x is registered and map('GET', '/:y/a', h) has thrown: the call
\* failed on its first segment, with a segment still to come
C7_Witness ==
    /\ \E r \in registered : r.method = GET /\ r.path = <<colonX>>
    /\ last.op = "map"
    /\ last.path = <<colonY, a>>
    /\ last.error = "ConflictingDynamicSegment"

(***************************************************************************)
(* C8.  Router.find returns a handler exactly when the walk of the request *)
(* path ends at a node at which a registered route of the method ends, and *)
(* then it returns the handler of that route; when the walk ends nowhere,  *)
(* or at a node that only lies on the way of longer routes, it returns     *)
(* not-found.                                                              *)
(***************************************************************************)
\* one spelling of each method that has routes
UsedMethods == { GET, <<"P", "o", "s", "t">> }

C8_FoundOnlyAtBoundNode ==
    \A method \in UsedMethods, q \in FindSeqs :
        LET trie == routeMethodMap[ToUpperCase(method)]
            walk == TrieFind(trie, Canon(q))
            result == RouterFind(routeMethodMap, method, Canon(q))
            ending == { r \in registered :
                          /\ r.method = ToUpperCase(method)
                          /\ ~walk.isNull
                          /\ Terminal(routeMethodMap, r) = walk.node }
        IN /\ result.error = "none"
           /\ result.found <=> (ending # {})
           /\ result.found => \A r \in ending : result.handler = r.handler
           /\ ~result.found => result = NotFound

\* GET /a/* is the only route and a find has returned not-found, as
\* find('GET', '/a') does: its walk ends at the node of 'a', which has no
\* handler
C8_Witness ==
    /\ registered = { [method |-> GET, path |-> <<a, star>>, handler |-> "h1"] }
    /\ ~TrieFind(routeMethodMap[GET], Canon(<<a>>)).isNull
    /\ RouterFind(routeMethodMap, GET, Canon(<<a>>)) = NotFound
    /\ last.op = "find"
    /\ last.result = NotFound

(***************************************************************************)
(* C9.  Method validation.  map and find throw UnsupportedMethod exactly   *)
(* when the method is, up to the case of its letters, none of the nine     *)
(* methods of the enum; two spellings of one method give the same results  *)
(* in map and in find; and find on a supported method never throws: a miss *)
(* is the not-found result, on the new router as in every later state.     *)
(***************************************************************************)
SameLetter(c, d) ==
    c = d \/ \E i \in 1..26 : {c, d} = {LowerCase[i], UpperCase[i]}

EqualUpToCase(s, t) ==
    Len(s) = Len(t) /\ \A i \in 1..Len(s) : SameLetter(s[i], t[i])

Supported(method) == \E h \in HttpMethod : EqualUpToCase(method, h)

\* the paths of at most one segment, for the map calls that C9 compares
ShortMapPaths == { Canon(segs) : segs \in SegSeqs(MapSegs, 1) }

C9_MethodValidation ==
    /\ Cardinality(HttpMethod) = 9
    /\ \A method \in MethodInputs :
          /\ \A path \in FindPaths :
                LET result == RouterFind(routeMethodMap, method, path) IN
                /\ (result.error = "UnsupportedMethod") <=> ~Supported(method)
                /\ Supported(method) => result.error = "none"
          /\ \A path \in ShortMapPaths :
                (RouterMap(routeMethodMap, method, path, "h1").error
                    = "UnsupportedMethod") <=> ~Supported(method)
    /\ \A m1 \in MethodInputs, m2 \in MethodInputs :
          (m1 # m2 /\ EqualUpToCase(m1, m2)) =>
             /\ \A path \in FindPaths :
                   RouterFind(routeMethodMap, m1, path)
                      = RouterFind(routeMethodMap, m2, path)
             /\ \A path \in ShortMapPaths :
                   RouterMap(routeMethodMap, m1, path, "h1")
                      = RouterMap(routeMethodMap, m2, path, "h1")

\* a route is registered under 'get', find('GET', ...) returns it, and a
\* find on an unsupported method has just thrown
C9_Witness ==
    /\ \E r \in registered :
          /\ r.method = GET
          /\ RouterFind(routeMethodMap, <<"g", "e", "t">>, Canon(r.path)).found
    /\ last.op = "find"
    /\ last.error = "UnsupportedMethod"

(***************************************************************************)
(* C10.  Path normalization, as claimed: two path texts that split on '/'  *)
(* into the same non-empty segments are interchangeable: find returns the  *)
(* same handler and the same pathParams for both, and map has the same     *)
(* effect with both.  The code returns no pathParams for '' and '/', and   *)
(* an empty pathParams for '//'.                                           *)
(***************************************************************************)
C10_EquivalentPaths ==
    \A method \in MethodInputs :
        /\ \A p1 \in FindPaths \cup MapPaths, p2 \in FindPaths \cup MapPaths :
              SelectSeq(SplitSlash(p1), LAMBDA part : part # <<>>)
                 = SelectSeq(SplitSlash(p2), LAMBDA part : part # <<>>)
              => RouterFind(routeMethodMap, method, p1)
                    = RouterFind(routeMethodMap, method, p2)
        /\ \A p1 \in MapPaths, p2 \in MapPaths :
              SelectSeq(SplitSlash(p1), LAMBDA part : part # <<>>)
                 = SelectSeq(SplitSlash(p2), LAMBDA part : part # <<>>)
              => RouterMap(routeMethodMap, method, p1, "h1")
                    = RouterMap(routeMethodMap, method, p2, "h1")

(***************************************************************************)
(* C11.  Root route.  find on '/' and on '' walks to the root node and     *)
(* captures nothing.  It returns a handler exactly when a map call on the  *)
(* method and a path with no segments has succeeded, and then the handler  *)
(* of that call, whatever else is registered, a top-level ':name' or '*'   *)
(* route included.                                                         *)
(***************************************************************************)
\* the two texts of the root case of find
RootTexts == { <<"/">>, <<>> }

C11_RootRoute ==
    \A method \in MethodInputs :
        Supported(method) =>
            \A path \in RootTexts :
                LET trie == routeMethodMap[ToUpperCase(method)]
                    walk == TrieFind(trie, path)
                    result == RouterFind(routeMethodMap, method, path)
                    roots == { r \in registered :
                                 /\ r.method = ToUpperCase(method)
                                 /\ r.path = <<>> }
                IN /\ ~walk.isNull
                   /\ walk.node = trie.root
                   /\ walk.params = <<>>
                   /\ result.found <=> (roots # {})
                   /\ \A r \in roots : result.handler = r.handler
                   /\ result.pathParams = <<>>

\* GET / and GET /* are registered with different handlers, and a find has
\* returned the handler of GET /, as find('GET', '/') does
C11_Witness ==
    \E r1 \in registered, r2 \in registered :
        /\ r1.method = GET /\ r1.path = <<>>
        /\ r2.method = GET /\ r2.path = <<star>>
        /\ r1.handler # r2.handler
        /\ last.op = "find"
        /\ last.result = RouterFind(routeMethodMap, GET, <<"/">>)
        /\ last.result.found
        /\ last.result.handler = r1.handler

(***************************************************************************)
(* C12.  Path parameters are always present, as claimed: whenever          *)
(* Router.find returns a handler, the result carries a pathParams mapping, *)
(* and the mapping is empty when the walk went through no dynamic child;   *)
(* the lookups of '/' and '' included.  The root case of RouteTrie.find    *)
(* returns no params, so Router.find returns pathParams undefined there.   *)
(***************************************************************************)
\* the walk from the root to the node went through a dynamic child
RECURSIVE ThroughDynamic(_, _)
ThroughDynamic(trie, node) ==
    LET parent == trie.nodes[node].parent IN
    IF parent = 0 THEN FALSE
    ELSE \/ trie.nodes[parent].dynamicSegment = node
         \/ ThroughDynamic(trie, parent)

C12_PathParamsPresent ==
    \A method \in MethodInputs, path \in FindPaths :
        LET result == RouterFind(routeMethodMap, method, path)
            trie == routeMethodMap[ToUpperCase(method)]
        IN result.found =>
              /\ result.hasParams
              /\ ~ThroughDynamic(trie, TrieFind(trie, path).node)
                    => result.pathParams = <<>>

(***************************************************************************)
(* C13.  Per-method independence.  A map call on one method leaves the     *)
(* trie of every other method as it was, so find on another method returns *)
(* what it returned before.  Whether the call throws depends on the routes *)
(* of its own method only: it throws DuplicateRoute exactly when a route   *)
(* of the same method has the same parts, and ConflictingDynamicSegment    *)
(* exactly when the trie of its own method has a dynamic child of another  *)
(* capture name on the way; so one path may be registered under two        *)
(* methods, and two methods may bind different capture names at one place. *)
(***************************************************************************)
\* the paths C13 looks up before and after a map call
ProbePaths == { Canon(segs) : segs \in SegSeqs(Literals, 1) }

C13_IndependenceStep ==
    (last'.op = "map" /\ last'.method \in HttpMethod) =>
        /\ \A m2 \in HttpMethod \ {last'.method} :
              routeMethodMap'[m2] = routeMethodMap[m2]
        /\ \A m2 \in {GET, POST} \ {last'.method}, q \in ProbePaths :
              RouterFind(routeMethodMap', m2, q)
                 = RouterFind(routeMethodMap, m2, q)
        /\ (last'.error = "DuplicateRoute")
              <=> \E r \in registered :
                     r.method = last'.method /\ r.path = last'.path
        /\ (last'.error = "ConflictingDynamicSegment")
              <=> (Conflicts(routeMethodMap[last'.method], last'.path) # {})

C13_PerMethodIndependence == [][C13_IndependenceStep]_vars

\* GET /:x is registered, and map('Post', '/:y', h) has succeeded: the same
\* place under another method and another capture name
C13_Witness ==
    /\ \E r \in registered : r.method = GET /\ r.path = <<colonX>>
    /\ \E r \in registered : r.method = POST /\ r.path = <<colonY>>
    /\ last.op = "map"
    /\ last.method = POST
    /\ last.path = <<colonY>>
    /\ last.error = "none"

(***************************************************************************)
(* C14.  No backtracking.  When the walk of find has gone into a literal   *)
(* child for a segment and comes, at a later segment, to a node with       *)
(* neither that literal child nor a dynamic child, the lookup is           *)
(* not-found; also when the dynamic sibling of that literal child leads to *)
(* a registered route that the request would match.                        *)
(***************************************************************************)
\* the node the walk stands on after k segments of q (0 when it has ended):
\* the literal child where there is one, else the dynamic child
RECURSIVE WalkNode(_, _, _)
WalkNode(trie, q, k) ==
    IF k = 0 THEN trie.root
    ELSE LET prev == WalkNode(trie, q, k - 1) IN
         IF prev = 0 THEN 0
         ELSE IF q[k] \in DOMAIN trie.nodes[prev].children
              THEN trie.nodes[prev].children[q[k]]
              ELSE trie.nodes[prev].dynamicSegment

\* the request q has the shape of the route: the same length, and the
\* same segment at every literal position
ShapeOf(route, q) ==
    /\ Len(q) = Len(route)
    /\ \A i \in 1..Len(route) : isDynamicPart(route[i]) \/ q[i] = route[i]

C14_NoBacktracking ==
    \A method \in UsedMethods, q \in FindSeqs :
        LET trie == routeMethodMap[ToUpperCase(method)] IN
        (\E k \in 1..Len(q) :
            /\ WalkNode(trie, q, k - 1) # 0
            /\ q[k] \in DOMAIN trie.nodes[WalkNode(trie, q, k - 1)].children
            /\ \E j \in (k + 1)..Len(q) : WalkNode(trie, q, j) = 0)
        => RouterFind(routeMethodMap, method, Canon(q)) = NotFound

\* GET /a/a and GET /:x/:y are registered, and a find has returned
\* not-found, as find('GET', '/a/b') does: the walk goes into the child
\* 'a', which has no child 'b', and /:x/:y has the shape of /a/b
C14_Witness ==
    /\ \E r \in registered : r.method = GET /\ r.path = <<a, a>>
    /\ \E r \in registered :
          /\ r.method = GET
          /\ r.path = <<colonX, colonY>>
          /\ ShapeOf(r.path, <<a, b>>)
    /\ RouterFind(routeMethodMap, GET, Canon(<<a, b>>)) = NotFound
    /\ last.op = "find"
    /\ last.result = NotFound

(***************************************************************************)
(* C15.  The trie is append-only.  In every step, of map or of find, each  *)
(* trie keeps its root and its nodes: a node keeps its segment, its parent *)
(* and the children it has; a dynamic child, once set, stays the dynamic   *)
(* child and keeps its capture name; a handler, once bound, stays bound.   *)
(* A step of find changes no trie at all.                                  *)
(***************************************************************************)
C15_AppendOnlyStep ==
    /\ \A httpMethod \in HttpMethod :
          LET old == routeMethodMap[httpMethod].nodes
              new == routeMethodMap'[httpMethod].nodes
          IN /\ routeMethodMap'[httpMethod].root = routeMethodMap[httpMethod].root
             /\ Len(new) >= Len(old)
             /\ \A n \in 1..Len(old) :
                   /\ new[n].path = old[n].path
                   /\ new[n].parent = old[n].parent
                   /\ \A part \in DOMAIN old[n].children :
                         /\ part \in DOMAIN new[n].children
                         /\ new[n].children[part] = old[n].children[part]
                   /\ old[n].dynamicSegment # 0 =>
                         /\ new[n].dynamicSegment = old[n].dynamicSegment
                         /\ new[new[n].dynamicSegment].path
                               = old[old[n].dynamicSegment].path
                   /\ old[n].value # Undefined => new[n].value = old[n].value
    /\ last'.op = "find" => routeMethodMap' = routeMethodMap

C15_AppendOnly == [][C15_AppendOnlyStep]_vars

\* GET /:x and GET /:x/a are registered, the second on the dynamic child
\* the first has made, and a find has been made since
C15_Witness ==
    /\ \E r \in registered : r.method = GET /\ r.path = <<colonX>>
    /\ \E r \in registered : r.method = GET /\ r.path = <<colonX, a>>
    /\ Len(routeMethodMap[GET].nodes) = 3
    /\ routeMethodMap[GET].nodes[1].dynamicSegment = 2
    /\ routeMethodMap[GET].nodes[2].value # Undefined
    /\ last.op = "find"

(***************************************************************************)
(* C16.  insert never overwrites a bound value, as claimed: for every      *)
(* value v of the payload type, the falsy ones included, once              *)
(* insert(p, v) has succeeded, an insert at any text of the same path      *)
(* throws DuplicateRoute and leaves the trie, so the value v, as it was.   *)
(* The code tests `if (current.value)`, so a falsy value counts as no      *)
(* value and is replaced.                                                  *)
(***************************************************************************)
\* values of a payload type T: a function, and the falsy 0, '' and false
TrieValues == { "h1", "0", "", "false" }

C16_InsertNeverOverwrites ==
    \A path \in ShortMapPaths, v \in TrieValues, w \in TrieValues :
        LET first == Insert(routeMethodMap[GET], path, v) IN
        first.error = "none" =>
            \A again \in PathTexts(Parts(InsertPath(path))) :
                LET second == Insert(first.trie, again, w) IN
                /\ second.error = "DuplicateRoute"
                /\ second.trie = first.trie

(***************************************************************************)
(* C19.  Repeated capture name.  A route may bear one capture name at two  *)
(* positions: its registration succeeds like that of any route (it throws  *)
(* only on a dynamic child of another name or on a duplicate), and a       *)
(* lookup that follows the route returns pathParams with one entry for     *)
(* each distinct capture name, fewer than the dynamic positions, the       *)
(* repeated name mapped to the request segment at its deepest position.    *)
(***************************************************************************)
\* the route bears a capture name at two positions
RepeatsName(route) ==
    \E i \in DynamicPositions(route), j \in DynamicPositions(route) :
        i < j /\ CaptureName(route[i]) = CaptureName(route[j])

\* the positions of the route that bear the capture name
PositionsOf(route, name) ==
    { i \in DynamicPositions(route) : CaptureName(route[i]) = name }

\* the greatest element of a non-empty set of numbers
Greatest(S) == CHOOSE i \in S : \A j \in S : j <= i

C19_Registers ==
    \A method \in UsedMethods, route \in SegSeqs(MapSegs, MaxSegs) :
        (/\ RepeatsName(route)
         /\ Conflicts(routeMethodMap[ToUpperCase(method)], route) = {}
         /\ ~\E r \in registered :
                r.method = ToUpperCase(method) /\ r.path = route)
        => RouterMap(routeMethodMap, method, Canon(route), "h1").error = "none"

C19_SingleEntry ==
    \A r \in registered :
        RepeatsName(r.path) =>
            \A q \in FindSeqs :
                MatchesRoute(routeMethodMap[r.method], r.path, q) =>
                    \A method \in Spellings(r.method) :
                        LET result ==
                               RouterFind(routeMethodMap, method, Canon(q))
                            names == DOMAIN result.pathParams
                        IN /\ result.found
                           /\ result.hasParams
                           /\ names = { CaptureName(r.path[i]) :
                                           i \in DynamicPositions(r.path) }
                           /\ Cardinality(names)
                                 < Cardinality(DynamicPositions(r.path))
                           /\ \A name \in names :
                                 result.pathParams[name]
                                    = q[Greatest(PositionsOf(r.path, name))]

C19_RepeatedName == C19_Registers /\ C19_SingleEntry

\* GET /:x/:x is registered and a find has returned the single entry
\* {x: "b"}, as find('GET', '/a/b') does
C19_Witness ==
    /\ \E r \in registered : r.method = GET /\ r.path = <<colonX, colonX>>
    /\ last.op = "find"
    /\ last.result = RouterFind(routeMethodMap, GET, Canon(<<a, b>>))
    /\ last.result.found
    /\ DOMAIN last.result.pathParams = {x}
    /\ last.result.pathParams[x] = b

(***************************************************************************)
(* C17.  The order of the calls made for a request.  As claimed            *)
(* (C17_EventOrder), every request runs every before-middleware in the     *)
(* order they were added, then the lookup with the URL cut at its first    *)
(* '?', then one handler (that of the route found, or the default handler  *)
(* when none is found), then every after-middleware in the order they were *)
(* added.  What holds (C17_EventOrderUntilThrow) is that the calls made    *)
(* are this order up to and including the first call that throws: all of   *)
(* it when nothing throws, and nothing of it after a throw.                *)
(***************************************************************************)
\* the url up to its first '?': the longest piece at the start of the url
\* without a '?'
CutAtFirstMark(url) ==
    CHOOSE path \in { SubSeq(url, 1, k) : k \in 0..Len(url) } :
        /\ \A i \in 1..Len(path) : path[i] # "?"
        /\ Len(path) = Len(url) \/ url[Len(path) + 1] = "?"

\* the calls of the claimed order for a request, in the present state
FullOrder(method, url) ==
    LET result == RouterFind(routeMethodMap, method, CutAtFirstMark(url)) IN
    [i \in 1..Len(beforeMiddleware) |->
        Event("before", beforeMiddleware[i], <<>>, <<>>)]
    \o <<Event("find", "find", method, CutAtFirstMark(url))>>
    \o <<Event("handler",
               IF result.found THEN result.handler ELSE "defaultHandler",
               <<>>, <<>>)>>
    \o [i \in 1..Len(afterMiddleware) |->
          Event("after", afterMiddleware[i], <<>>, <<>>)]

\* the call throws: a function of Throwing, or a lookup on a method the
\* router does not support
EventThrows(e) ==
    \/ e.kind \in {"before", "handler", "after"} /\ Throws(e.name)
    \/ e.kind = "find" /\ ~Supported(e.method)

\* the calls up to and including the first that throws
UntilThrow(events) ==
    LET throwing == { i \in 1..Len(events) : EventThrows(events[i]) } IN
    IF throwing = {} THEN events
    ELSE SubSeq(events, 1, CHOOSE i \in throwing : \A j \in throwing : i <= j)

\* the calls made for the request, that of the error handler left out
CallOrder(events) == SelectSeq(events, LAMBDA e : e.kind # "error")

C17_EventOrder ==
    last.op = "request" =>
        CallOrder(last.events) = FullOrder(last.method, last.url)

C17_EventOrderUntilThrow ==
    last.op = "request" =>
        /\ CallOrder(last.events)
             = UntilThrow(FullOrder(last.method, last.url))
        /\ last.threw
             <=> \E i \in 1..Len(FullOrder(last.method, last.url)) :
                    EventThrows(FullOrder(last.method, last.url)[i])

\* with the before-middleware b2, b1, the after-middleware a1, a2 and the
\* route GET /a, the request GET /a?q?r has made the six calls in order
C17_Witness ==
    /\ last.op = "request"
    /\ last.url = <<"/", "a", "?", "q", "?", "r">>
    /\ ~last.threw
    /\ last.events =
          << Event("before", "b2", <<>>, <<>>),
             Event("before", "b1", <<>>, <<>>),
             Event("find", "find", GET, <<"/", "a">>),
             Event("handler", "h1", <<>>, <<>>),
             Event("after", "a1", <<>>, <<>>),
             Event("after", "a2", <<>>, <<>>) >>

(***************************************************************************)
(* C18.  Exceptions go to the error handler, as claimed: whenever a call   *)
(* made for a request throws (a before-middleware, the lookup, the         *)
(* handler, an after-middleware), the error handler that is set is called  *)
(* once for the request, and the loop goes on to the next request.  The    *)
(* before-middleware run outside the try block: what they throw reaches no *)
(* error handler and ends the loop.                                        *)
(***************************************************************************)
C18_ErrorHandlerOnce ==
    (last.op = "request" /\ last.threw) =>
        /\ Cardinality({ i \in 1..Len(last.events) :
                            last.events[i].kind = "error" }) = 1
        /\ \A i \in 1..Len(last.events) :
              last.events[i].kind = "error" =>
                 last.events[i].name = errorHandler
        /\ looping

(***************************************************************************)
(* C20.  A server makes a listener at most once.  serve() returns at most  *)
(* once in a run; a call of start() made once it has returned, while the   *)
(* server runs or after stop(), logs 'Server is already running.' and      *)
(* changes nothing: no listener is made and the request loop is not        *)
(* entered.  stop() closes the server and leaves it set.                   *)
(***************************************************************************)
C20_StartStep ==
    /\ listeners' <= 1
    /\ listeners' >= listeners
    /\ (last'.op = "start" /\ listeners >= 1) =>
          /\ last'.log = "Server is already running."
          /\ UNCHANGED <<serverVars, routeMethodMap>>
    /\ (last'.op = "stop" /\ Truthy(server)) =>
          /\ server' = "closed"
          /\ ~looping'
    /\ last'.op = "request" => (looping /\ server = "open")

C20_ListenerAtMostOnce == [][C20_StartStep]_vars

\* the server was started and stopped, and start() has been called again
C20_Witness ==
    /\ listeners = 1
    /\ server = "closed"
    /\ ~looping
    /\ last.op = "start"
    /\ last.log = "Server is already running."

====
